---- MODULE Spec2Model ----
(***************************************************************************)
(* Model of solar-grabber: one run of main (src/main.rs), the two device   *)
(* scrapers (src/sun600.rs, src/tasmota.rs) and the line-protocol encoder  *)
(* of BackendInfluxDB::publish.                                            *)
(*                                                                         *)
(* A Rust String is a sequence of one-character strings.  In an html body  *)
(* the fixed marker texts the regular expressions search for are single    *)
(* tokens ("var cover_mid", "Active Power", ...): they contain none of the *)
(* characters the patterns distinguish.                                    *)
(*                                                                         *)
(* An f64 is the exact decimal [neg, int, frac] of a literal without        *)
(* exponent (frac = fraction digits without trailing zeros); the literals  *)
(* "inf", "nan" and exponents are outside the alphabet of the model.       *)
(***************************************************************************)
EXTENDS Integers, Sequences, FiniteSets, TLC

VARIABLES
    pc,         \* position of the running entry point
    args,       \* main: the two arguments and the config file, as supplied
    config,     \* main: Config {sources, targets} once loaded
    si,         \* main: index of the source of the current loop iteration
    ti,         \* main: index of the next target of the inner loop
    device,     \* the SourceDevice whose poll_data runs
    page,       \* what the polled device shows: its serial and three readings
    html,       \* the response body handed to parse_html
    result,     \* the anyhow::Result of the last poll_data / parse_html
    measurement,\* encode: the target's measurement name
    pd,         \* encode: the PublishData under construction (its fields vec)
    line,       \* the last line built by publish
    polls,      \* main: the GET requests issued, as source indices, in order
    publishes,  \* main: the publish calls made, in order
    stderr      \* main: the eprintln! reports and the error main returns

vars == <<pc, args, config, si, ti, device, page, html, result, measurement,
          pd, line, polls, publishes, stderr>>

----------------------------------------------------------------------------
(* Strings *)

Concat(ss) ==
    LET RECURSIVE Go(_)
        Go(k) == IF k > Len(ss) THEN <<>> ELSE ss[k] \o Go(k + 1)
    IN Go(1)

IsWhitespace(c) == c \in {" ", "\n", "\t"}

\* str::trim: drop leading and trailing whitespace
Trim(s) ==
    LET keep == {i \in 1..Len(s) : ~IsWhitespace(s[i])}
        Min(S) == CHOOSE x \in S : \A y \in S : x <= y
        Max(S) == CHOOSE x \in S : \A y \in S : x >= y
    IN IF keep = {} THEN <<>> ELSE SubSeq(s, Min(keep), Max(keep))

\* escape!(x; set) doing what escape_tag_value does: the backslash is escaped too
EscapeBackslashToo(x, set) ==
    LET RECURSIVE Go(_)
        Go(k) == IF k > Len(x) THEN <<>>
                 ELSE IF x[k] \in set \cup {"\\"}
                      THEN <<"\\", x[k]>> \o Go(k + 1)
                      ELSE <<x[k]>> \o Go(k + 1)
    IN Go(1)

\* escape!(x; set): for c in x.chars() { if c in set { push('\\') } push(c) }
Escape(x, set) ==
    LET RECURSIVE Go(_)
        Go(k) == IF k > Len(x) THEN <<>>
                 ELSE IF x[k] \in set
                      THEN <<"\\", x[k]>> \o Go(k + 1)
                      ELSE <<x[k]>> \o Go(k + 1)
    IN Go(1)

MeasurementSet == {",", " "}
KeySet == {",", "=", " "}
StringFieldSet == {"\"", "\\"}

----------------------------------------------------------------------------
(* f64 *)

DigitChars == <<"0", "1", "2", "3", "4", "5", "6", "7", "8", "9">>
IsDigit(c) == \E i \in 1..10 : DigitChars[i] = c
DigitVal(c) == (CHOOSE i \in 1..10 : DigitChars[i] = c) - 1

F64(neg, int, frac) == [neg |-> neg, int |-> int, frac |-> frac]

\* f64 == 0.0 (true of -0.0 too)
IsZero(f) == f.int = 0 /\ f.frac = <<>>

\* f64::to_string: shortest decimal text, "998" for 998.0, "-0" for -0.0
ToDigits(n) ==
    LET RECURSIVE Go(_)
        Go(m) == IF m < 10 THEN <<DigitChars[m + 1]>>
                 ELSE Go(m \div 10) \o <<DigitChars[(m % 10) + 1]>>
    IN Go(n)

F64ToString(f) ==
    (IF f.neg THEN <<"-">> ELSE <<>>)
    \o ToDigits(f.int)
    \o (IF f.frac = <<>> THEN <<>> ELSE <<".">> \o f.frac)

\* str::parse::<f64>: [sign] digits [. digits] with at least one digit; no
\* whitespace is accepted anywhere.  Err is "empty" or "invalid".
ParseF64(s) ==
    LET body == IF s # <<>> /\ Head(s) \in {"+", "-"} THEN Tail(s) ELSE s
        dots == {i \in 1..Len(body) : body[i] = "."}
        dot == IF dots = {} THEN Len(body) + 1 ELSE CHOOSE i \in dots : TRUE
        ip == SubSeq(body, 1, dot - 1)
        fp == SubSeq(body, dot + 1, Len(body))
        wellFormed == /\ Cardinality(dots) <= 1
                      /\ \A i \in 1..Len(body) : IsDigit(body[i]) \/ body[i] = "."
                      /\ Len(ip) + Len(fp) >= 1
        RECURSIVE IntOf(_, _)
        IntOf(k, acc) == IF k > Len(ip) THEN acc
                         ELSE IntOf(k + 1, acc * 10 + DigitVal(ip[k]))
        nz == {i \in 1..Len(fp) : fp[i] # "0"}
        lastNz == IF nz = {} THEN 0 ELSE CHOOSE i \in nz : \A j \in nz : j <= i
    IN IF s = <<>> THEN [ok |-> FALSE, err |-> "cannot parse float from empty string"]
       ELSE IF ~wellFormed THEN [ok |-> FALSE, err |-> "invalid float literal"]
       ELSE [ok |-> TRUE,
             val |-> F64(Head(s) = "-", IntOf(1, 0), SubSeq(fp, 1, lastNz))]

----------------------------------------------------------------------------
(* Value, Field, PublishData (main.rs) *)

StringValue(s) == [kind |-> "String", s |-> s]
F64Value(f) == [kind |-> "F64", f |-> f]

\* PublishData::tag / PublishData::field: push at the end of the fields vec
Tag(fields, name, value) ==
    Append(fields, [class |-> "Tag", name |-> name, value |-> value])

Field(fields, name, value) ==
    Append(fields, [class |-> "Field", name |-> name, value |-> value])

Ok(data) == [ok |-> TRUE, data |-> data]
Err(kind, msg) == [ok |-> FALSE, kind |-> kind, msg |-> msg]

----------------------------------------------------------------------------
(* Pattern search of the scrapers *)

NoMatch == [found |-> FALSE, text |-> <<>>]
Match(text) == [found |-> TRUE, text |-> text]

\* Regex `<marker>\s*=\s*"?([^;"]+)\s*"?;` searched in h: group 1 of the
\* leftmost match, the greedy quantifiers preferring the longest run first
\* and the optional quote preferring to be taken (leftmost-first semantics).
JsVarCaptures(h, marker) ==
    LET n == Len(h)
        At(i, c) == i <= n /\ h[i] = c
        AllWs(a, b) == \A i \in a..b : IsWhitespace(h[i])
        InClass(a, b) == \A i \in a..b : h[i] \notin {";", "\""}
        \* <<e2, q1, ce, e3, q2>>: end of the whitespace after '=', quote
        \* taken, end of the capture, end of the whitespace after it, quote taken
        Tails(eq) ==
            UNION { UNION { UNION { UNION {
                { <<e2, q1, ce, e3, q2>> :
                    q2 \in {q \in {0, 1} : /\ (q = 1 => At(e3 + 1, "\""))
                                           /\ At(e3 + 1 + q, ";")} }
                : e3 \in {e \in ce..n : AllWs(ce + 1, e)} }
                : ce \in {e \in (e2 + 1 + q1)..n : InClass(e2 + 1 + q1, e)} }
                : q1 \in {q \in {0, 1} : q = 1 => At(e2 + 1, "\"")} }
                : e2 \in {e \in eq..n : AllWs(eq + 1, e)} }
        Cands(p) ==
            UNION { Tails(e1 + 1) :
                    e1 \in {e \in p..n : AllWs(p + 1, e) /\ At(e + 1, "=")} }
        Weight(c) == (((c[1] * 2 + c[2]) * (n + 1) + c[3]) * (n + 1) + c[4]) * 2 + c[5]
        starts == {p \in 1..n : h[p] = marker /\ Cands(p) # {}}
        first == CHOOSE p \in starts : \A r \in starts : p <= r
        best == CHOOSE c \in Cands(first) :
                    \A d \in Cands(first) : Weight(c) >= Weight(d)
    IN IF starts = {} THEN NoMatch
       ELSE Match(SubSeq(h, best[1] + 1 + best[2], best[3]))

\* Regex `<marker>[^>]*>[^>]*>([^<]*)` searched in h: group 1
TdCaptures(h, marker) ==
    LET n == Len(h)
        NextGt(p) == LET S == {i \in (p + 1)..n : h[i] = ">"}
                     IN IF S = {} THEN 0 ELSE CHOOSE i \in S : \A j \in S : i <= j
        starts == {p \in 1..n : /\ h[p] = marker
                                /\ NextGt(p) # 0
                                /\ NextGt(NextGt(p)) # 0}
        first == CHOOSE p \in starts : \A r \in starts : p <= r
        g2 == NextGt(NextGt(first))
        lts == {i \in (g2 + 1)..n : h[i] = "<"}
        stop == IF lts = {} THEN n + 1 ELSE CHOOSE i \in lts : \A j \in lts : i <= j
    IN IF starts = {} THEN NoMatch ELSE Match(SubSeq(h, g2 + 1, stop - 1))

----------------------------------------------------------------------------
(* Scrapers: Inverter::parse_html (sun600.rs), Tasmota::parse_html (tasmota.rs) *)

DEVICE_NAME == <<"d", "e", "v", "i", "c", "e", "N", "a", "m", "e">>
DEVICE_LOCATION == <<"d", "e", "v", "i", "c", "e", "L", "o", "c", "a", "t", "i", "o", "n">>
DEVICE == <<"d", "e", "v", "i", "c", "e">>
CURRENT_POWER == <<"c", "u", "r", "r", "e", "n", "t", "P", "o", "w", "e", "r">>
YIELD_TODAY == <<"y", "i", "e", "l", "d", "T", "o", "d", "a", "y">>
TOTAL_YIELD == <<"t", "o", "t", "a", "l", "Y", "i", "e", "l", "d">>

\* the tags both scrapers start with: deviceName, then deviceLocation if Some
IdentityTags(d) ==
    LET named == Tag(<<>>, DEVICE_NAME, StringValue(d.device_name))
    IN IF d.device_location.some
       THEN Tag(named, DEVICE_LOCATION, StringValue(d.device_location.s))
       ELSE named

Readings(fields, cp, yt, ty) ==
    Field(Field(Field(fields, CURRENT_POWER, F64Value(cp)),
                YIELD_TODAY, F64Value(yt)),
          TOTAL_YIELD, F64Value(ty))

InverterNoZeroFilter(d, h) ==
    LET sn == JsVarCaptures(h, "var cover_mid")
        cp == JsVarCaptures(h, "var webdata_now_p")
        yt == JsVarCaptures(h, "var webdata_today_e")
        ty == JsVarCaptures(h, "var webdata_total_e")
        cpv == ParseF64(cp.text)
        ytv == ParseF64(yt.text)
        tyv == ParseF64(ty.text)
    IN IF ~sn.found THEN Err("Context", "Could not parse device sn")
       ELSE IF ~cp.found THEN Err("Context", "Could not parse current power")
       ELSE IF ~cpv.ok THEN Err("ParseFloatError", cpv.err)
       ELSE IF ~yt.found THEN Err("Context", "Could not parse yield today")
       ELSE IF ~ytv.ok THEN Err("ParseFloatError", ytv.err)
       ELSE IF ~ty.found THEN Err("Context", "Could not parse total yield")
       ELSE IF ~tyv.ok THEN Err("ParseFloatError", tyv.err)
       ELSE Ok(Readings(Tag(IdentityTags(d), DEVICE, StringValue(Trim(sn.text))),
                        cpv.val, ytv.val, tyv.val))

InverterParseHtml(d, h) ==
    LET sn == JsVarCaptures(h, "var cover_mid")
        cp == JsVarCaptures(h, "var webdata_now_p")
        yt == JsVarCaptures(h, "var webdata_today_e")
        ty == JsVarCaptures(h, "var webdata_total_e")
        cpv == ParseF64(cp.text)
        ytv == ParseF64(yt.text)
        tyv == ParseF64(ty.text)
    IN IF ~sn.found THEN Err("Context", "Could not parse device sn")
       ELSE IF ~cp.found THEN Err("Context", "Could not parse current power")
       ELSE IF ~cpv.ok THEN Err("ParseFloatError", cpv.err)
       ELSE IF ~yt.found THEN Err("Context", "Could not parse yield today")
       ELSE IF ~ytv.ok THEN Err("ParseFloatError", ytv.err)
       ELSE IF ~ty.found THEN Err("Context", "Could not parse total yield")
       ELSE IF ~tyv.ok THEN Err("ParseFloatError", tyv.err)
       ELSE IF IsZero(cpv.val) /\ IsZero(ytv.val) /\ IsZero(tyv.val)
       THEN Err("Bail", "Filtering out device data (all values are zero).")
       ELSE Ok(Readings(Tag(IdentityTags(d), DEVICE, StringValue(Trim(sn.text))),
                        cpv.val, ytv.val, tyv.val))

TasmotaZeroFilter(d, h) ==
    LET cp == TdCaptures(h, "Active Power")
        yt == TdCaptures(h, "Energy Today")
        ty == TdCaptures(h, "Energy Total")
        cpv == ParseF64(cp.text)
        ytv == ParseF64(yt.text)
        tyv == ParseF64(ty.text)
    IN IF ~cp.found THEN Err("Context", "Could not parse current power")
       ELSE IF ~cpv.ok THEN Err("ParseFloatError", cpv.err)
       ELSE IF ~yt.found THEN Err("Context", "Could not parse yield today")
       ELSE IF ~ytv.ok THEN Err("ParseFloatError", ytv.err)
       ELSE IF ~ty.found THEN Err("Context", "Could not parse total yield")
       ELSE IF ~tyv.ok THEN Err("ParseFloatError", tyv.err)
       ELSE IF IsZero(cpv.val) /\ IsZero(ytv.val) /\ IsZero(tyv.val)
       THEN Err("Bail", "Filtering out device data (all values are zero).")
       ELSE Ok(Readings(IdentityTags(d), cpv.val, ytv.val, tyv.val))

TasmotaParseHtml(d, h) ==
    LET cp == TdCaptures(h, "Active Power")
        yt == TdCaptures(h, "Energy Today")
        ty == TdCaptures(h, "Energy Total")
        cpv == ParseF64(cp.text)
        ytv == ParseF64(yt.text)
        tyv == ParseF64(ty.text)
    IN IF ~cp.found THEN Err("Context", "Could not parse current power")
       ELSE IF ~cpv.ok THEN Err("ParseFloatError", cpv.err)
       ELSE IF ~yt.found THEN Err("Context", "Could not parse yield today")
       ELSE IF ~ytv.ok THEN Err("ParseFloatError", ytv.err)
       ELSE IF ~ty.found THEN Err("Context", "Could not parse total yield")
       ELSE IF ~tyv.ok THEN Err("ParseFloatError", tyv.err)
       ELSE Ok(Readings(IdentityTags(d), cpv.val, ytv.val, tyv.val))

\* SourceDevice::poll_data once the body has arrived: dispatch on the variant
ParseHtml(d, h) ==
    IF d.type = "Inverter" THEN InverterParseHtml(d, h) ELSE TasmotaParseHtml(d, h)

----------------------------------------------------------------------------
(* Line-protocol encoder: the body of BackendInfluxDB::publish (main.rs) *)

TagValueText(v) ==
    IF v.kind = "String" THEN Escape(v.s, KeySet) ELSE F64ToString(v.f)

FieldValueText(v) ==
    IF v.kind = "String" THEN Escape(v.s, StringFieldSet) ELSE F64ToString(v.f)

\* first loop: every Field::Tag pushes ',' key '=' value
TagLoop(fields) ==
    LET RECURSIVE Go(_)
        Go(k) == IF k > Len(fields) THEN <<>>
                 ELSE IF fields[k].class = "Tag"
                      THEN <<",">> \o Escape(fields[k].name, KeySet) \o <<"=">>
                           \o TagValueText(fields[k].value) \o Go(k + 1)
                      ELSE Go(k + 1)
    IN Go(1)

\* second loop: every Field::Field pushes ',' unless first, then key '=' value
FieldLoopNoFirst(fields) ==
    LET RECURSIVE Go(_)
        Go(k) == IF k > Len(fields) THEN <<>>
                 ELSE IF fields[k].class = "Field"
                      THEN <<",">> \o Escape(fields[k].name, KeySet) \o <<"=">>
                           \o FieldValueText(fields[k].value) \o Go(k + 1)
                      ELSE Go(k + 1)
    IN Go(1)

FieldLoop(fields) ==
    LET RECURSIVE Go(_, _)
        Go(k, first) ==
            IF k > Len(fields) THEN <<>>
            ELSE IF fields[k].class = "Field"
                 THEN (IF first THEN <<>> ELSE <<",">>)
                      \o Escape(fields[k].name, KeySet) \o <<"=">>
                      \o FieldValueText(fields[k].value) \o Go(k + 1, FALSE)
                 ELSE Go(k + 1, first)
    IN Go(1, TRUE)

EncodeLine(m, fields) ==
    Escape(m, MeasurementSet) \o TagLoop(fields) \o <<" ">> \o FieldLoop(fields)

----------------------------------------------------------------------------
(* The devices' status pages: what the firmware renders for a reading *)

Zero == F64(FALSE, 0, <<>>)
OnePointFive == F64(FALSE, 1, <<"5">>)

Literals ==
    { [text |-> <<"0">>, val |-> Zero],
      [text |-> <<"0", ".", "0">>, val |-> Zero],
      [text |-> <<"9", "9", "8">>, val |-> F64(FALSE, 998, <<>>)] }

Paddings == { <<<<>>, <<>>>>, <<<<>>, <<" ", " ">>>>, <<<<" ">>, <<>>>> }

Missing == [shape |-> "missing", text |-> <<>>, val |-> Zero]
Empty == [shape |-> "empty", text |-> <<>>, val |-> Zero]
Garbage == [shape |-> "garbage", text |-> <<"a">>, val |-> Zero]
Number(l, pad) ==
    [shape |-> "number", text |-> pad[1] \o l.text \o pad[2], val |-> l.val]

ReadingChoices ==
    {Missing, Empty, Garbage}
    \cup {Number(l, pad) : l \in Literals, pad \in Paddings}

SerialChoices ==
    { Missing, Empty,
      [shape |-> "serial", text |-> <<"7", " ", " ", " ">>, val |-> Zero] }

Pages ==
    [sn : SerialChoices, cp : ReadingChoices, yt : ReadingChoices, ty : ReadingChoices]

\* var <name> = "<text>";
JsVar(marker, r) ==
    IF r.shape = "missing" THEN <<>>
    ELSE <<marker, " ", "=", " ", "\"">> \o r.text \o <<"\"", ";", "\n">>

\* {s}<label>{m}</td><td style='text-align:left'><text></td><td>&nbsp;</td>
TableRow(marker, r) ==
    IF r.shape = "missing" THEN <<>>
    ELSE <<"{s}", marker, "{m}", "<", "/td", ">", "<", "td", ">">> \o r.text
         \o <<"<", "/td", ">", "<", "td", ">", "&nbsp;", "<", "/td", ">">>

Render(type, p) ==
    IF type = "Inverter"
    THEN <<"\n">> \o JsVar("var cover_mid", p.sn)
         \o JsVar("var webdata_now_p", p.cp)
         \o JsVar("var webdata_today_e", p.yt)
         \o JsVar("var webdata_total_e", p.ty)
         \o JsVar("var webdata_alarm", Garbage)
    ELSE <<"{t}">> \o TableRow("Voltage", Number([text |-> <<"2">>, val |-> Zero], <<<<>>, <<>>>>))
         \o TableRow("Active Power", p.cp)
         \o TableRow("Energy Today", p.yt)
         \o TableRow("Energy Total", p.ty)

----------------------------------------------------------------------------
(* Configuration values *)

None == [some |-> FALSE, s |-> <<>>]
Some(s) == [some |-> TRUE, s |-> s]

DeviceNames == { <<"a">>, <<"a", "\\">> }
Locations == { None, Some(<<"l">>) }

Devices ==
    [type : {"Inverter", "Tasmota"}, device_name : {<<"a">>},
     device_location : Locations]

PagesOf(type) ==
    IF type = "Inverter" THEN Pages ELSE {p \in Pages : p.sn = Missing}

NoDevice == [type |-> "none", device_name |-> <<>>, device_location |-> None]
NoResult == [ok |-> FALSE, kind |-> "none", msg |-> "none"]
NoConfig == [sources |-> <<>>, targets |-> <<>>]
NoArgs == [sources |-> None, targets |-> None, file |-> None]

----------------------------------------------------------------------------
(* parse_html alone: a fetched body is handed to the device's scraper *)

ParseInit ==
    /\ pc = "fetched"
    /\ device \in Devices
    /\ page \in PagesOf(device.type)
    /\ html = Render(device.type, page)
    /\ result = NoResult
    /\ args = NoArgs /\ config = NoConfig /\ si = 0 /\ ti = 0
    /\ measurement = <<>> /\ pd = <<>> /\ line = <<>>
    /\ polls = <<>> /\ publishes = <<>> /\ stderr = <<>>

ParseStep ==
    /\ pc = "fetched"
    /\ result' = ParseHtml(device, html)
    /\ pc' = "parsed"
    /\ UNCHANGED <<args, config, si, ti, device, page, html, measurement, pd,
                   line, polls, publishes, stderr>>

ParseNext == ParseStep

ParseSpec == ParseInit /\ [][ParseNext]_vars

----------------------------------------------------------------------------
(* One run of main (main.rs) *)

MaxSources == 2
MaxTargets == 2

SeqsUpTo(S, n) == UNION { [1..k -> S] : k \in 0..n }

\* main polls devices whose names and locations are fixed here; the type varies
MainDevices ==
    { [type |-> t, device_name |-> <<"a">>, device_location |-> None] :
      t \in {"Inverter", "Tasmota"} }

\* BackendInfluxDB: influx_url either parses as a URL or does not
Targets == [url_ok : BOOLEAN, measurement : {<<"m">>}]

SourceLists == SeqsUpTo(MainDevices, MaxSources)
TargetLists == SeqsUpTo(Targets, MaxTargets)

\* an argument or the file holds text that is valid JSON for the list, or not
Json(v) == [some |-> TRUE, valid |-> TRUE, value |-> v]
BadJson == [some |-> TRUE, valid |-> FALSE, value |-> <<>>]
Absent == [some |-> FALSE, valid |-> FALSE, value |-> <<>>]

ArgChoices(lists) == {Absent, BadJson} \cup {Json(v) : v \in lists}

Number15 == Number([text |-> <<"1", ".", "5">>, val |-> OnePointFive], <<<<>>, <<>>>>)
Number0 == Number([text |-> <<"0">>, val |-> Zero], <<<<>>, <<>>>>)
Number00 == Number([text |-> <<"0", ".", "0">>, val |-> Zero], <<<<>>, <<>>>>)
Serial7 == [shape |-> "serial", text |-> <<"7">>, val |-> Zero]

\* the bodies a device answers with during a run of main
MainPages(type) ==
    LET sn == IF type = "Inverter" THEN Serial7 ELSE Missing
    IN { [sn |-> sn, cp |-> Number15, yt |-> Number15, ty |-> Number15],
         [sn |-> sn, cp |-> Number0, yt |-> Number00, ty |-> Number0],
         [sn |-> sn, cp |-> Number15, yt |-> Missing, ty |-> Number15],
         [sn |-> sn, cp |-> Number15, yt |-> Number15, ty |-> Garbage] }

Init ==
    /\ pc = "start"
    /\ \/ /\ args \in [sources : ArgChoices(SourceLists),
                       targets : ArgChoices(TargetLists), file : {Absent}]
          /\ args.sources.some \/ args.targets.some
       \/ args \in [sources : {Absent}, targets : {Absent},
                    file : {Absent, BadJson}
                           \cup {Json([sources |-> a, targets |-> b]) :
                                 a \in SourceLists, b \in TargetLists}]
    /\ config = NoConfig
    /\ si = 0 /\ ti = 0
    /\ device = NoDevice /\ page = None /\ html = <<>>
    /\ result = NoResult
    /\ measurement = <<>> /\ pd = <<>> /\ line = <<>>
    /\ polls = <<>> /\ publishes = <<>> /\ stderr = <<>>

\* Config::load: the match on (sources, targets), before the emptiness checks
LoadMatch(a) ==
    IF a.sources.some /\ a.targets.some
    THEN IF ~a.sources.valid
         THEN Err("Context", "Expected JSON for 'sources'")
         ELSE Ok([sources |-> a.sources.value,
                  targets |-> IF a.targets.valid THEN a.targets.value ELSE <<>>])
    ELSE IF a.sources.some \/ a.targets.some
    THEN Err("Bail", "Supply all arguments or none")
    ELSE IF ~a.file.some THEN Err("Context", "Failed to load config file")
    ELSE IF ~a.file.valid THEN Err("serde_json", "invalid config file")
    ELSE Ok(a.file.value)

ConfigLoadUnchecked(a) == LoadMatch(a)

ConfigLoad(a) ==
    LET r == LoadMatch(a)
    IN IF ~r.ok THEN r
       ELSE IF r.data.sources = <<>> THEN Err("Bail", "No sources given")
       ELSE IF r.data.targets = <<>>
       THEN Err("Bail", "No publishers given, try 'targets' (SG_INFLUXDBS)")
       ELSE r

\* let mut config = Config::load()?;
Load ==
    /\ pc = "start"
    /\ LET r == ConfigLoad(args)
       IN IF r.ok
          THEN /\ config' = r.data
               /\ si' = 1
               /\ pc' = "loop"
               /\ stderr' = stderr
          ELSE /\ stderr' = Append(stderr, <<"Error", r.msg>>)
               /\ pc' = "exit"
               /\ UNCHANGED <<config, si>>
    /\ UNCHANGED <<args, ti, device, page, html, result, measurement, pd, line,
                   polls, publishes>>

\* where the outer loop goes after the poll of source i returned r
AfterPollAbort(r, i) ==
    IF r.ok THEN [pc |-> "publish", si |-> i] ELSE [pc |-> "exit", si |-> i]

AfterPoll(r, i) ==
    IF r.ok /\ Len(config.targets) > 0
    THEN [pc |-> "publish", si |-> i]
    ELSE [pc |-> "loop", si |-> i + 1]

\* match src.poll_data() { Ok(data) => ..., Err(err) => eprintln!(...) }
Polled(r, h, p) ==
    /\ polls' = Append(polls, si)
    /\ device' = config.sources[si]
    /\ page' = p
    /\ html' = h
    /\ result' = r
    /\ stderr' = IF r.ok THEN stderr
                 ELSE Append(stderr, <<"Failed to receive data from", si>>)
    /\ pc' = AfterPoll(r, si).pc
    /\ si' = AfterPoll(r, si).si
    /\ ti' = 1
    /\ UNCHANGED <<args, config, measurement, pd, line, publishes>>

\* ureq::get(..).call()?.into_string()? fails: no body reaches parse_html
PollTransportError ==
    /\ pc = "loop" /\ si <= Len(config.sources)
    /\ Polled(Err("ureq", "transport or status error"), <<>>, None)

\* the device answers with a body and parse_html runs on it
PollBody ==
    /\ pc = "loop" /\ si <= Len(config.sources)
    /\ \E p \in MainPages(config.sources[si].type) :
          LET h == Render(config.sources[si].type, p)
          IN Polled(ParseHtml(config.sources[si], h), h, p)

\* where the inner loop goes after the publish on target j
AfterPublishStop(ok, j) ==
    IF ok /\ j < Len(config.targets)
    THEN [pc |-> "publish", si |-> si, ti |-> j + 1]
    ELSE [pc |-> "loop", si |-> si + 1, ti |-> j + 1]

AfterPublish(ok, j) ==
    IF j < Len(config.targets)
    THEN [pc |-> "publish", si |-> si, ti |-> j + 1]
    ELSE [pc |-> "loop", si |-> si + 1, ti |-> j + 1]

\* if let Err(err) = dst.publish(&data) { eprintln!(...) }
Published(r, l) ==
    /\ publishes' = Append(publishes, <<si, ti>>)
    /\ line' = l
    /\ stderr' = IF r.ok THEN stderr
                 ELSE Append(stderr, <<"Failed to publish data to", si, ti>>)
    /\ pc' = AfterPublish(r.ok, ti).pc
    /\ si' = AfterPublish(r.ok, ti).si
    /\ ti' = AfterPublish(r.ok, ti).ti
    /\ UNCHANGED <<args, config, device, page, html, result, measurement, pd, polls>>

\* url::Url::parse(&self.influx_url)? fails before the line is built
PublishUrlError ==
    /\ pc = "publish" /\ ti <= Len(config.targets)
    /\ ~config.targets[ti].url_ok
    /\ Published(Err("url", "relative URL without a base"), line)

\* the line is built and POSTed; send_string succeeds
PublishSent ==
    /\ pc = "publish" /\ ti <= Len(config.targets)
    /\ config.targets[ti].url_ok
    /\ Published(Ok(<<>>), EncodeLine(config.targets[ti].measurement, result.data))

\* the line is built and POSTed; send_string fails: ureq::Error, which is a
\* transport error or a response with a non-success status
PublishSendError ==
    /\ pc = "publish" /\ ti <= Len(config.targets)
    /\ config.targets[ti].url_ok
    /\ Published(Err("ureq", "transport error or non-success status"),
                 EncodeLine(config.targets[ti].measurement, result.data))

\* the for loop over config.sources is exhausted: Ok(())
Finish ==
    /\ pc = "loop" /\ si > Len(config.sources)
    /\ pc' = "exit"
    /\ stderr' = Append(stderr, <<"Ok">>)
    /\ UNCHANGED <<args, config, si, ti, device, page, html, result, measurement,
                   pd, line, polls, publishes>>

Next ==
    \/ Load
    \/ PollTransportError
    \/ PollBody
    \/ PublishUrlError
    \/ PublishSent
    \/ PublishSendError
    \/ Finish

Spec == Init /\ [][Next]_vars

----------------------------------------------------------------------------
(* Properties of a run of main (Spec) *)

Range(f) == {f[i] : i \in DOMAIN f}

PollFailureReported(i) == <<"Failed to receive data from", i>> \in Range(stderr)
PublishFailureReported(i, j) == <<"Failed to publish data to", i, j>> \in Range(stderr)

\* C1: with a valid Config every source is polled exactly once, in configured
\* order, whatever the outcomes: the GET requests issued are sources 1, 2, ...
\* with no gap and no repeat; a failed poll is reported on stderr; the loop can
\* always take its next step; and main exits, with Ok, only when every source
\* has been polled.
C1_EverySourcePolledOnceInOrder ==
    /\ \A k \in 1..Len(polls) : polls[k] = k
    /\ Len(polls) <= Len(config.sources)
    /\ (polls # <<>> /\ ~result.ok) => PollFailureReported(polls[Len(polls)])
    /\ (pc # "exit") => ENABLED Next
    /\ (pc = "exit" /\ config # NoConfig) =>
          /\ Len(polls) = Len(config.sources)
          /\ stderr[Len(stderr)] = <<"Ok">>

\* a run that has ended, whose first source failed and whose second was polled
C1_Witness ==
    /\ pc = "exit"
    /\ Len(config.sources) = 2
    /\ PollFailureReported(1)
    /\ polls = <<1, 2>>

\* the publish calls expected once source i has been polled
PublishesFor(i) ==
    IF PollFailureReported(i) THEN <<>>
    ELSE [j \in 1..(IF pc = "publish" /\ si = i THEN ti - 1 ELSE Len(config.targets))
            |-> <<i, j>>]

\* C2: the publish calls made are, for each polled source in order, none if its
\* poll failed and otherwise one per target in target order (all of them before
\* the next source is polled), whatever each publish returned; a publish that
\* fails (here observably: a target whose URL does not parse) is reported.
C2_PublishOncePerTargetInOrder ==
    /\ publishes = Concat([k \in 1..Len(polls) |-> PublishesFor(polls[k])])
    /\ \A k \in 1..Len(publishes) :
          ~config.targets[publishes[k][2]].url_ok
             => PublishFailureReported(publishes[k][1], publishes[k][2])

\* a run that has ended: source 1 failed and got no publish, source 2 was
\* published on both targets although the publish on target 1 failed
C2_Witness ==
    /\ pc = "exit"
    /\ PollFailureReported(1)
    /\ PublishFailureReported(2, 1)
    /\ publishes = <<<<2, 1>>, <<2, 2>>>>

\* the configuration as supplied: one argument without the other, or an empty
\* (or unreadable) source or target list in the channel that is used
OneArgumentOnly == args.sources.some # args.targets.some

EmptyListSupplied ==
    \/ /\ args.sources.some /\ args.targets.some
       /\ args.sources.value = <<>> \/ args.targets.value = <<>>
    \/ /\ ~args.sources.some /\ ~args.targets.some
       /\ args.file.some /\ args.file.valid
       /\ args.file.value.sources = <<>> \/ args.file.value.targets = <<>>

\* C3: when exactly one argument is supplied, or the source list or the target
\* list is empty, Config::load fails: main reports the error and exits, having
\* polled no source and published to no target.  Whenever a poll has happened
\* both config.sources and config.targets are non-empty.
C3_LoadGatesPolling ==
    /\ (pc # "start" /\ (OneArgumentOnly \/ EmptyListSupplied)) =>
          /\ pc = "exit"
          /\ Len(stderr) = 1 /\ stderr[1][1] = "Error"
          /\ polls = <<>> /\ publishes = <<>>
    /\ polls # <<>> => config.sources # <<>> /\ config.targets # <<>>

\* load has run on two arguments with sources but an empty target list
C3_Witness ==
    /\ pc = "exit"
    /\ args.sources.some /\ args.sources.value # <<>>
    /\ args.targets.some /\ args.targets.valid /\ args.targets.value = <<>>
    /\ stderr = <<<<"Error", "No publishers given, try 'targets' (SG_INFLUXDBS)">>>>

----------------------------------------------------------------------------
(* Properties of the scrapers *)

FieldsOf(data) == SelectSeq(data, LAMBDA f : f.class = "Field")
TagsOf(data) == SelectSeq(data, LAMBDA f : f.class = "Tag")

\* the text shown for a reading is a float literal as it stands
ShowsFloat(r) == r.shape = "number" /\ ParseF64(r.text).ok

AllMarkersAndFloats ==
    /\ page.sn.shape = "serial"
    /\ ShowsFloat(page.cp) /\ ShowsFloat(page.yt) /\ ShowsFloat(page.ty)

AllReadingsZero == page.cp.val = Zero /\ page.yt.val = Zero /\ page.ty.val = Zero

\* C4: for the inverter, a page with all four markers whose three readings are
\* float literals makes parse_html fail with the all-zero rejection when the
\* three values are all zero, whatever the serial number, and succeed when at
\* least one of them is not zero.
C4_InverterRejectsAllZero ==
    (pc = "parsed" /\ device.type = "Inverter" /\ AllMarkersAndFloats) =>
        IF AllReadingsZero
        THEN ~result.ok /\ result.kind = "Bail"
        ELSE result.ok

\* parse_html has rejected an inverter page showing 0, 0.0 and 0 under a
\* padded serial number
C4_Witness ==
    /\ pc = "parsed" /\ device.type = "Inverter"
    /\ page.sn.text = <<"7", " ", " ", " ">>
    /\ page.cp.text = <<"0">> /\ page.yt.text = <<"0", ".", "0">>
    /\ page.ty.text = <<"0">>
    /\ ~result.ok /\ result.kind = "Bail"

ZeroField(name) == [class |-> "Field", name |-> name, value |-> F64Value(Zero)]

PlugZeroPage == [sn |-> Missing, cp |-> Number0, yt |-> Number00, ty |-> Number0]

\* C5 (checked on runs of main): when the smart plug last polled answered with
\* current power, energy today and energy total all zero, its poll succeeded
\* with the three fields currentPower, yieldToday, totalYield, each zero, no
\* failure is reported for it and it is published to every target in turn.
C5_PlugPublishesAllZero ==
    (polls # <<>> /\ device.type = "Tasmota" /\ page = PlugZeroPage) =>
        /\ result.ok
        /\ FieldsOf(result.data) = << ZeroField(CURRENT_POWER),
                                      ZeroField(YIELD_TODAY),
                                      ZeroField(TOTAL_YIELD) >>
        /\ ~PollFailureReported(polls[Len(polls)])
        /\ \A j \in 1..Len(config.targets) :
              (pc = "publish" /\ j >= ti) \/ <<polls[Len(polls)], j>> \in Range(publishes)

\* an all-zero plug reading has been sent to two targets
C5_Witness ==
    /\ pc = "exit"
    /\ device.type = "Tasmota" /\ page = PlugZeroPage
    /\ Len(config.targets) = 2
    /\ <<Len(polls), 1>> \in Range(publishes)
    /\ <<Len(polls), 2>> \in Range(publishes)
    /\ line # <<>>

ValueOf(data, name) ==
    LET S == {k \in 1..Len(data) : data[k].name = name}
    IN data[CHOOSE k \in S : \A j \in S : k <= j].value

\* C6: for the inverter, a page showing under each marker a serial number and
\* three readings not all zero, each possibly padded with whitespace inside
\* the quotes, polls successfully with exactly those three values and the
\* trimmed serial number.
C6_InverterTrimsBeforeParsing ==
    (/\ pc = "parsed" /\ device.type = "Inverter"
     /\ page.sn.shape = "serial"
     /\ page.cp.shape = "number" /\ page.yt.shape = "number"
     /\ page.ty.shape = "number"
     /\ ~AllReadingsZero) =>
        /\ result.ok
        /\ ValueOf(result.data, DEVICE) = StringValue(<<"7">>)
        /\ ValueOf(result.data, CURRENT_POWER) = F64Value(page.cp.val)
        /\ ValueOf(result.data, YIELD_TODAY) = F64Value(page.yt.val)
        /\ ValueOf(result.data, TOTAL_YIELD) = F64Value(page.ty.val)

\* the field an error message names
FieldNamedBy(msg) ==
    CASE msg = "Could not parse device sn" -> "sn"
      [] msg = "Could not parse current power" -> "cp"
      [] msg = "Could not parse yield today" -> "yt"
      [] msg = "Could not parse total yield" -> "ty"
      [] OTHER -> "none"

ExtractionOrder == IF device.type = "Inverter" THEN <<"sn", "cp", "yt", "ty">>
                   ELSE <<"cp", "yt", "ty">>

\* the pattern of field f finds nothing: no marker, or, for the inverter, a
\* marker followed by empty quotes (the capture group needs a character)
Unmatched(f) ==
    \/ page[f].shape = "missing"
    \/ device.type = "Inverter" /\ page[f].shape = "empty"
NotAFloat(f) == f # "sn" /\ ~Unmatched(f) /\ ~ParseF64(page[f].text).ok
BadFields == {k \in 1..Len(ExtractionOrder) :
                Unmatched(ExtractionOrder[k]) \/ NotAFloat(ExtractionOrder[k])}
FirstBadField == ExtractionOrder[CHOOSE k \in BadFields : \A j \in BadFields : k <= j]

\* C7: when a marker is missing or a captured text is not a float, the poll
\* fails with an error naming the first such field in extraction order: a
\* 'not found' error for a missing marker, an error of another kind, naming
\* the field too, for a text that is not a float.
C7_ErrorsNameTheField ==
    (pc = "parsed" /\ BadFields # {}) =>
        /\ ~result.ok
        /\ FieldNamedBy(result.msg) = FirstBadField
        /\ (result.kind = "Context") <=> Unmatched(FirstBadField)

----------------------------------------------------------------------------
(* The encoder on any PublishData: tag() and field() calls in any order, or
   the PublishData a scraper returns, then publish builds the line *)

MaxFields == 3

Measurements == { <<"m">>, <<"m", ",", " ", "=">> }

EncStrings ==
    { <<"a">>, <<"a", ",", "b">>, <<",", "=", " ">>, <<"\"", "\\">> }

TagArgs ==
    {[name |-> DEVICE, value |-> StringValue(x)] : x \in EncStrings}
    \cup { [name |-> DEVICE, value |-> F64Value(OnePointFive)],
           [name |-> <<",", "=", " ">>, value |-> StringValue(<<"a">>)] }

FieldArgs ==
    {[name |-> <<"p">>, value |-> StringValue(x)] : x \in EncStrings}
    \cup { [name |-> <<"p">>, value |-> F64Value(OnePointFive)],
           [name |-> <<",", "=", " ">>, value |-> F64Value(OnePointFive)] }

EncDevices ==
    [type : {"Inverter", "Tasmota"}, device_name : DeviceNames,
     device_location : Locations]

EncodeInit ==
    /\ pc = "build"
    /\ measurement \in Measurements
    /\ pd = <<>> /\ line = <<>>
    /\ device = NoDevice /\ page = None /\ html = <<>> /\ result = NoResult
    /\ args = NoArgs /\ config = NoConfig /\ si = 0 /\ ti = 0
    /\ polls = <<>> /\ publishes = <<>> /\ stderr = <<>>

\* publisher.tag(name, value)
TagCall ==
    /\ pc = "build" /\ Len(pd) < MaxFields
    /\ \E a \in TagArgs : pd' = Tag(pd, a.name, a.value)
    /\ UNCHANGED <<pc, args, config, si, ti, device, page, html, result,
                   measurement, line, polls, publishes, stderr>>

\* publisher.field(name, value)
FieldCall ==
    /\ pc = "build" /\ Len(pd) < MaxFields
    /\ \E a \in FieldArgs : pd' = Field(pd, a.name, a.value)
    /\ UNCHANGED <<pc, args, config, si, ti, device, page, html, result,
                   measurement, line, polls, publishes, stderr>>

\* a successful poll returns the PublishData
PollCall ==
    /\ pc = "build" /\ pd = <<>>
    /\ \E d \in EncDevices : \E p \in MainPages(d.type) :
          LET h == Render(d.type, p)
              r == ParseHtml(d, h)
          IN /\ r.ok
             /\ device' = d /\ page' = p /\ html' = h /\ result' = r
             /\ pd' = r.data
    /\ pc' = "polled"
    /\ UNCHANGED <<args, config, si, ti, measurement, line, polls, publishes,
                   stderr>>

\* dst.publish(&data) builds the line
PublishLine ==
    /\ pc \in {"build", "polled"}
    /\ line' = EncodeLine(measurement, pd)
    /\ pc' = "sent"
    /\ UNCHANGED <<args, config, si, ti, device, page, html, result,
                   measurement, pd, polls, publishes, stderr>>

EncodeNext == TagCall \/ FieldCall \/ PollCall \/ PublishLine

EncodeSpec == EncodeInit /\ [][EncodeNext]_vars

----------------------------------------------------------------------------
(* Properties of the encoder (EncodeSpec) *)

\* x with one backslash inserted before each character of set, nothing else
\* changed: character i of x lands at i plus the number of set characters
\* among the first i, and every other position holds a backslash
WithBackslashBefore(x, set) ==
    LET extra(i) == Cardinality({j \in 1..i : x[j] \in set})
    IN [q \in 1..(Len(x) + extra(Len(x))) |->
            IF \E i \in 1..Len(x) : i + extra(i) = q
            THEN x[CHOOSE i \in 1..Len(x) : i + extra(i) = q]
            ELSE "\\"]

\* < head >< ,key=value per tag >< space >< key=value joined by commas >
Assemble(head, tags, fields) ==
    head
    \o Concat([k \in 1..Len(tags) |-> <<",">> \o tags[k][1] \o <<"=">> \o tags[k][2]])
    \o <<" ">>
    \o Concat([k \in 1..Len(fields) |->
                 (IF k = 1 THEN <<>> ELSE <<",">>)
                 \o fields[k][1] \o <<"=">> \o fields[k][2]])

NumberText(v) == F64ToString(v.f)

ExampleData ==
    << [class |-> "Tag", name |-> DEVICE, value |-> StringValue(<<"a", ",", "b">>)],
       [class |-> "Field", name |-> <<"p">>, value |-> F64Value(OnePointFive)] >>

ExampleLine ==
    << "m", ",", "d", "e", "v", "i", "c", "e", "=", "a", "\\", ",", "b", " ",
       "p", "=", "1", ".", "5" >>

\* C9: in the line publish builds, every string is its original with exactly
\* one backslash inserted before each character of its context's set and
\* nothing else changed: comma and space in the measurement; comma, '=' and
\* space in a tag key, a tag string value and a field key; double quote and
\* backslash in a string field value (numbers are not escaped).  Measurement
\* m, tag device = "a,b", field p = 1.5 gives  m,device=a\,b p=1.5
C9_EscapingPerContext ==
    pc = "sent" =>
        /\ line = Assemble(
              WithBackslashBefore(measurement, {",", " "}),
              [k \in 1..Len(TagsOf(pd)) |->
                 << WithBackslashBefore(TagsOf(pd)[k].name, {",", "=", " "}),
                    IF TagsOf(pd)[k].value.kind = "String"
                    THEN WithBackslashBefore(TagsOf(pd)[k].value.s, {",", "=", " "})
                    ELSE NumberText(TagsOf(pd)[k].value) >>],
              [k \in 1..Len(FieldsOf(pd)) |->
                 << WithBackslashBefore(FieldsOf(pd)[k].name, {",", "=", " "}),
                    IF FieldsOf(pd)[k].value.kind = "String"
                    THEN WithBackslashBefore(FieldsOf(pd)[k].value.s, {"\"", "\\"})
                    ELSE NumberText(FieldsOf(pd)[k].value) >>])
        /\ (measurement = <<"m">> /\ pd = ExampleData) => line = ExampleLine

\* the example has been encoded
C9_Witness ==
    pc = "sent" /\ measurement = <<"m">> /\ pd = ExampleData /\ line = ExampleLine

\* the encoder's own text of a tag and of a field
TagTexts(data) ==
    [k \in 1..Len(TagsOf(data)) |->
        << Escape(TagsOf(data)[k].name, KeySet), TagValueText(TagsOf(data)[k].value) >>]

FieldTexts(data) ==
    [k \in 1..Len(FieldsOf(data)) |->
        << Escape(FieldsOf(data)[k].name, KeySet),
           FieldValueText(FieldsOf(data)[k].value) >>]

Names(fields) == [k \in 1..Len(fields) |-> fields[k].name]

CountOf(c, x) == Cardinality({i \in 1..Len(x) : x[i] = c})

\* positions of l that follow a backslash which is not itself escaped: those
\* preceded by an odd number of consecutive backslashes
EscapedPositions(l) ==
    {i \in 1..Len(l) :
        Cardinality({k \in 1..(i - 1) : \A j \in k..(i - 1) : l[j] = "\\"}) % 2 = 1}

UnescapedSpaces(l) == {i \in 1..Len(l) : l[i] = " " /\ i \notin EscapedPositions(l)}

IsSeparator(l, i) == l[i] \in {",", " "} /\ i \notin EscapedPositions(l)

\* the line is the escaped measurement, the tags in the order added, one
\* space, the fields in the order added joined by single commas
LineHasTheGrammar ==
    line = Assemble(Escape(measurement, MeasurementSet), TagTexts(pd), FieldTexts(pd))

\* a PublishData returned by a scraper has the three fields, in this order
PolledDataHasThreeFields ==
    result.ok =>
        /\ Names(FieldsOf(pd)) = <<CURRENT_POWER, YIELD_TODAY, TOTAL_YIELD>>
        /\ pc = "sent" => FieldLoop(pd) # <<>>

Undecodable == [ok |-> FALSE, tags |-> <<>>, fields |-> <<>>]

Decode(l) ==
    LET n == Len(l)
        Minimum(S) == CHOOSE x \in S : \A y \in S : x <= y
        RunBefore(i, a) ==
            Cardinality({k \in a..(i - 1) : \A j \in k..(i - 1) : l[j] = "\\"})
        Introduces(i, a, b, set) ==
            /\ l[i] = "\\" /\ i < b /\ l[i + 1] \in set
            /\ ("\\" \in set) => (RunBefore(i, a) % 2 = 0)
        Escaped(i, a, b, set) == i > a /\ Introduces(i - 1, a, b, set)
        Cuts(a, b, chars, set) ==
            {i \in a..b : l[i] \in chars /\ ~Escaped(i, a, b, set)}
        Text(a, b, set) ==
            LET kept == {i \in a..b : ~Introduces(i, a, b, set)}
            IN [q \in 1..Cardinality(kept) |->
                   l[CHOOSE i \in kept : Cardinality({j \in kept : j <= i}) = q]]
        spaces == Cuts(1, n, {" "}, KeySet)
        sep == Minimum(spaces)
        RECURSIVE TagsFrom(_, _)
        TagsFrom(a, acc) ==
            LET eqs == Cuts(a, sep - 1, {"="}, KeySet)
                e == Minimum(eqs)
                commas == Cuts(e + 1, sep - 1, {","}, KeySet)
                b == IF commas = {} THEN sep - 1 ELSE Minimum(commas) - 1
                pair == <<Text(a, e - 1, KeySet), Text(e + 1, b, KeySet)>>
            IN IF eqs = {} \/ Cuts(a, e - 1, {","}, KeySet) # {}
                  \/ Cuts(e + 1, b, {"="}, KeySet) # {}
               THEN <<Undecodable>>
               ELSE IF commas = {} THEN Append(acc, pair)
               ELSE TagsFrom(b + 2, Append(acc, pair))
        RECURSIVE FieldsFrom(_, _)
        FieldsFrom(a, acc) ==
            LET eqs == Cuts(a, n, {"="}, KeySet)
                e == Minimum(eqs)
                commas == {i \in (e + 1)..n : l[i] = ","}
                b == IF commas = {} THEN n ELSE Minimum(commas) - 1
                pair == <<Text(a, e - 1, KeySet), Text(e + 1, b, StringFieldSet)>>
            IN IF eqs = {} \/ Cuts(a, e - 1, {",", " "}, KeySet) # {}
                  \/ {i \in (e + 1)..b : l[i] \in {"=", " "}} # {}
               THEN <<Undecodable>>
               ELSE IF commas = {} THEN Append(acc, pair)
               ELSE FieldsFrom(b + 2, Append(acc, pair))
        firstComma == Cuts(1, sep - 1, {","}, MeasurementSet)
        tags == IF firstComma = {} THEN <<>>
                ELSE TagsFrom(Minimum(firstComma) + 1, <<>>)
        fields == IF sep = n THEN <<>> ELSE FieldsFrom(sep + 1, <<>>)
    IN IF spaces = {} THEN Undecodable
       ELSE IF tags = <<Undecodable>> \/ fields = <<Undecodable>> THEN Undecodable
       ELSE [ok |-> TRUE, tags |-> tags, fields |-> fields]

\* the (name, value) pairs as inserted; a number is its decimal text
InsertedPairs(fields) ==
    [k \in 1..Len(fields) |->
        << fields[k].name,
           IF fields[k].value.kind = "String" THEN fields[k].value.s
           ELSE F64ToString(fields[k].value.f) >>]

\* C8: decoding the line publish builds recovers exactly the inserted
\* (name, value) pairs, the tags in insertion order and the fields in
\* insertion order, whatever characters the names and values contain.
C8_RoundTrip ==
    pc = "sent" =>
        Decode(line) = [ok |-> TRUE,
                        tags |-> InsertedPairs(TagsOf(pd)),
                        fields |-> InsertedPairs(FieldsOf(pd))]

====
